---- MODULE Spec2Model ----
(***************************************************************************)
(* Model of src/app.py: the Streamlit script that turns a topic query into *)
(* a Reddit post through five stages (search, select, fetch, summarise,    *)
(* generate).  One execution of main() is a run; Streamlit executes main() *)
(* again whenever the text input changes.                                  *)
(*                                                                         *)
(* Texts are modelled by what the code looks at:                           *)
(*  - a page text is the sequence of its lines (the pieces between "\n"),  *)
(*    each line given by the lengths of its leading whitespace, of its     *)
(*    core (from the first to the last character that is not whitespace)   *)
(*    and of its trailing whitespace: what CharacterTextSplitter reads;    *)
(*  - a model output that is parsed with json.loads is a token sequence;   *)
(*  - a model output that is passed on verbatim is a short string (a       *)
(*    summary) or its length in characters (the post).                     *)
(***************************************************************************)
EXTENDS Integers, Sequences, FiniteSets, TLC

VARIABLES
    SERPAPI_API_KEY,   \* module global, line 19: "key" or "None"
    OPENAI_API_KEY,    \* module global, line 20 (the same environment entry ChatOpenAI reads)
    runs,              \* executions of main() so far
    query,             \* main: query
    pc,                \* position of the script inside main()
    err,               \* the exception that ended the run, "None" when there is none
    stages,            \* stages entered in this run, in order
    completed,         \* stages that returned to main in this run, in order
    search_results,    \* main: search_results
    urls,              \* main: urls
    data,              \* main: data
    text,              \* summarise_content: text (the chunks)
    idx,               \* summarise_content: position of the for loop (1-based)
    inflight,          \* summariser model calls issued and not yet returned
    summ_local,        \* summarise_content: summaries (local list)
    summaries,         \* main: summaries
    post,              \* main: post (length in characters)
    searchCalls,       \* search requests issued in this run
    selectCalls,       \* selector prompts sent to the model in this run
    selectReplies,     \* selector model outputs received in this run
    fetchCalls,        \* loader.load() calls of this run (their url argument)
    summCalls,         \* summariser prompts sent to the model in this run
    summReplies,       \* summariser model outputs received in this run
    genCalls,          \* post-generator prompts sent to the model in this run
    genReplies         \* post-generator model outputs received in this run

vars == <<SERPAPI_API_KEY, OPENAI_API_KEY, runs, query, pc, err, stages, completed,
          search_results, urls, data, text, idx, inflight, summ_local, summaries, post,
          searchCalls, selectCalls, selectReplies, fetchCalls, summCalls, summReplies,
          genCalls, genReplies>>

(***************************************************************************)
(* Bounds and program constants                                            *)
(***************************************************************************)
MaxRuns == 2

chunk_size == 3000
chunk_overlap == 200
separator_len == 1

StageOrder == <<"Search", "Select", "Fetch", "Summarize", "Generate">>

(***************************************************************************)
(* Inputs                                                                  *)
(***************************************************************************)
KeyValues == {"None", "key"}
Queries == {"", "electric vehicles"}

\* A line of text: lead whitespace characters, then core characters that
\* start and end with a character that is not whitespace, then trail
\* whitespace characters.  A line of whitespace only has core = 0 and all
\* its characters counted in lead; the empty line is Line(0, 0, 0).
Line(lead, core, trail) == [lead |-> lead, core |-> core, trail |-> trail]

\* Page texts the loader may extract, as lines.
Contents == { <<Line(0, 5000, 0)>>, <<Line(0, 3000, 0)>>, <<Line(0, 150, 0)>>, << >>,
              <<Line(150, 0, 0)>>,
              <<Line(0, 1500, 0), Line(0, 0, 0), Line(0, 1500, 0)>>,
              <<Line(0, 2000, 0), Line(4, 146, 0), Line(0, 1500, 2)>> }

\* Raw texts the selector model may answer with, as tokens.
SelectorOutputs == { <<"[", "\"u1\"", "]">>,
                     <<"[", "\"u1\"", ",", "\"u2\"", "]">>,
                     <<"[", "]">>,
                     <<"[", "7", "]">>,
                     <<"{", "}">>,
                     <<"7">>,
                     <<"\"u1\"">>,
                     <<"Sure!", "[", "\"u1\"", "]">>,
                     <<"[", "\"u1\"">>,
                     << >> }

SummaryOutputs == {"", "s"}
PostOutputs == {0, 120, 50000}

(***************************************************************************)
(* json.loads on the tokens of a flat JSON text (line 65).                 *)
(* A value is [kind, items, s]: kind is the Python type, items the         *)
(* elements of a list, s the text of a scalar.                             *)
(***************************************************************************)
StrTokens == {"\"u1\"", "\"u2\""}
NumTokens == {"7"}

StrValue(t) == IF t = "\"u1\"" THEN "u1" ELSE "u2"

Scalar(t) == IF t \in StrTokens
             THEN [kind |-> "str", items |-> << >>, s |-> StrValue(t)]
             ELSE [kind |-> "int", items |-> << >>, s |-> t]

NoValue == [kind |-> "unset", items |-> << >>, s |-> ""]

ElementsWellFormed(inner) ==
    /\ Len(inner) % 2 = 1
    /\ \A i \in 1..Len(inner) :
          IF i % 2 = 1 THEN inner[i] \in StrTokens \cup NumTokens
                       ELSE inner[i] = ","

json_loads(toks) ==
    IF Len(toks) = 1 /\ toks[1] \in StrTokens \cup NumTokens
    THEN [ok |-> TRUE, val |-> Scalar(toks[1])]
    ELSE IF toks = <<"{", "}">>
    THEN [ok |-> TRUE, val |-> [kind |-> "dict", items |-> << >>, s |-> ""]]
    ELSE IF Len(toks) >= 2 /\ toks[1] = "[" /\ toks[Len(toks)] = "]"
    THEN LET inner == SubSeq(toks, 2, Len(toks) - 1) IN
         IF inner = << >>
         THEN [ok |-> TRUE, val |-> [kind |-> "list", items |-> << >>, s |-> ""]]
         ELSE IF ElementsWellFormed(inner)
         THEN [ok |-> TRUE,
               val |-> [kind |-> "list",
                        items |-> [k \in 1..((Len(inner) + 1) \div 2) |-> Scalar(inner[2 * k - 1])],
                        s |-> ""]]
         ELSE [ok |-> FALSE, val |-> NoValue]
    ELSE [ok |-> FALSE, val |-> NoValue]

\* json.dumps of the search results (line 50).
json_dumps(d) == <<"{", d, "}">>

(***************************************************************************)
(* CharacterTextSplitter(separator="\n", chunk_size=3000,                  *)
(* chunk_overlap=200, length_function=len).split_documents (lines 91-92).  *)
(* split_text cuts the page at every separator, drops the empty pieces and *)
(* merges consecutive pieces into chunks; a piece is never cut.  A chunk   *)
(* is the pieces joined by the separator and stripped of the whitespace at *)
(* its two ends; a chunk that strips to nothing is dropped.                *)
(***************************************************************************)
\* len() of a piece.
LineLen(l) == l.lead + l.core + l.trail

RECURSIVE NonEmptyPieces(_)
NonEmptyPieces(s) ==
    IF s = << >> THEN << >>
    ELSE IF LineLen(Head(s)) = 0 THEN NonEmptyPieces(Tail(s))
    ELSE <<Head(s)>> \o NonEmptyPieces(Tail(s))

SepIf(cur, n) == IF Len(cur) > n THEN separator_len ELSE 0

\* The inner while loop of _merge_splits: drop pieces from the front of the
\* current chunk until what is left fits the overlap and the next piece.
RECURSIVE PopFront(_, _, _)
PopFront(cur, total, len) ==
    IF total > chunk_overlap
       \/ (total + len + SepIf(cur, 0) > chunk_size /\ total > 0)
    THEN PopFront(Tail(cur), total - (LineLen(Head(cur)) + SepIf(cur, 1)), len)
    ELSE [cur |-> cur, total |-> total]

\* str.strip() on the joined text: the whitespace-only lines at either end
\* go with their separators, then the whitespace before the first core and
\* after the last one.
RECURSIVE StripLeft(_)
StripLeft(ls) ==
    IF ls = << >> THEN << >>
    ELSE IF Head(ls).core = 0 THEN StripLeft(Tail(ls))
    ELSE <<[Head(ls) EXCEPT !.lead = 0]>> \o Tail(ls)

RECURSIVE StripRight(_)
StripRight(ls) ==
    IF ls = << >> THEN << >>
    ELSE IF ls[Len(ls)].core = 0 THEN StripRight(SubSeq(ls, 1, Len(ls) - 1))
    ELSE [ls EXCEPT ![Len(ls)].trail = 0]

Strip(ls) == StripRight(StripLeft(ls))

\* _join_docs: the stripped text, or None (no chunk) when nothing is left.
JoinDocs(docs, cur) == IF Strip(cur) = << >> THEN docs ELSE Append(docs, Strip(cur))

RECURSIVE MergeSplits(_, _, _, _)
MergeSplits(splits, docs, cur, total) ==
    IF splits = << >> THEN JoinDocs(docs, cur)
    ELSE LET d == LineLen(Head(splits)) IN
         IF total + d + SepIf(cur, 0) > chunk_size /\ Len(cur) > 0
         THEN LET kept == PopFront(cur, total, d)
                  cur2 == Append(kept.cur, Head(splits))
              IN MergeSplits(Tail(splits), JoinDocs(docs, cur), cur2,
                             kept.total + d + SepIf(cur2, 1))
         ELSE LET cur2 == Append(cur, Head(splits))
              IN MergeSplits(Tail(splits), docs, cur2, total + d + SepIf(cur2, 1))

split_text(page) == MergeSplits(NonEmptyPieces(page), << >>, << >>, 0)

\* One Document per chunk, carrying the metadata of the page it came from.
RECURSIVE split_documents(_)
split_documents(documents) ==
    IF documents = << >> THEN << >>
    ELSE LET doc == Head(documents)
             chunks == split_text(doc.page_content)
         IN [k \in 1..Len(chunks) |->
                 [page_content |-> chunks[k], metadata |-> doc.metadata]]
            \o split_documents(Tail(documents))

(***************************************************************************)
(* Prompt rendering                                                        *)
(***************************************************************************)
\* What the {text} slot of the summariser prompt holds (lines 115-117): the
\* loop variable is an item of enumerate(text), the pair (index, Document),
\* and PromptTemplate renders it with str().
TextSlot(i, chunk) ==
    [index_shown |-> TRUE, index |-> i - 1,
     page_content |-> chunk.page_content,
     metadata_shown |-> TRUE, metadata |-> chunk.metadata]

\* A {text} slot that held the text of the chunk and nothing else.
PlainText(chunk) ==
    [index_shown |-> FALSE, index |-> 0,
     page_content |-> chunk.page_content,
     metadata_shown |-> FALSE, metadata |-> ""]

SummaryPrompt(i, chunk, q) == [text |-> TextSlot(i, chunk), query |-> q]

\* str(summaries) (line 131): the repr of a Python list of strings.
RECURSIVE ReprItems(_)
ReprItems(s) ==
    IF s = << >> THEN << >>
    ELSE <<"'", Head(s), "'">>
         \o (IF Tail(s) = << >> THEN << >> ELSE <<", ">>)
         \o ReprItems(Tail(s))

\* Mutant of str_list: only the first summary is rendered.
str_list_first_only(s) ==
    <<"[">> \o (IF s = << >> THEN << >> ELSE ReprItems(<<Head(s)>>)) \o <<"]">>

str_list(s) == <<"[">> \o ReprItems(s) \o <<"]">>

PostPrompt(s, q) == [summaries_str |-> str_list(s), query |-> q]

(***************************************************************************)
(* State after the module is imported (lines 18-20): the two globals hold  *)
(* whatever the environment has, os.getenv gives None for a missing entry  *)
(* and nothing checks it.                                                  *)
(***************************************************************************)
FreshRun ==
    /\ err = "None"
    /\ stages = << >>
    /\ completed = << >>
    /\ search_results = "None"
    /\ urls = NoValue
    /\ data = << >>
    /\ text = << >>
    /\ idx = 1
    /\ inflight = 0
    /\ summ_local = << >>
    /\ summaries = << >>
    /\ post = 0
    /\ searchCalls = << >>
    /\ selectCalls = << >>
    /\ selectReplies = << >>
    /\ fetchCalls = << >>
    /\ summCalls = << >>
    /\ summReplies = << >>
    /\ genCalls = << >>
    /\ genReplies = << >>

\* The same values, as the locals of a run that starts.
StartRun ==
    /\ err' = "None"
    /\ stages' = << >>
    /\ completed' = << >>
    /\ search_results' = "None"
    /\ urls' = NoValue
    /\ data' = << >>
    /\ text' = << >>
    /\ idx' = 1
    /\ inflight' = 0
    /\ summ_local' = << >>
    /\ summaries' = << >>
    /\ post' = 0
    /\ searchCalls' = << >>
    /\ selectCalls' = << >>
    /\ selectReplies' = << >>
    /\ fetchCalls' = << >>
    /\ summCalls' = << >>
    /\ summReplies' = << >>
    /\ genCalls' = << >>
    /\ genReplies' = << >>

Init ==
    /\ SERPAPI_API_KEY \in KeyValues
    /\ OPENAI_API_KEY \in KeyValues
    /\ runs = 0
    /\ query = ""
    /\ pc = "idle"
    /\ FreshRun

keys == <<SERPAPI_API_KEY, OPENAI_API_KEY>>
results == <<search_results, urls, data, text, idx, inflight, summ_local, summaries, post>>
calls == <<searchCalls, selectCalls, selectReplies, fetchCalls, summCalls, summReplies,
           genCalls, genReplies>>

\* Mutant of query_is_truthy: the test of line 189 left out.
query_is_truthy_always(q) == TRUE

\* `if query:` (line 189): the truth value of a Python string.
query_is_truthy(q) == q # ""

\* The statement of main() that follows a stage that returned.
pc_after(stage) ==
    CASE stage = "Search" -> "select"
      [] stage = "Select" -> "fetch"
      [] stage = "Fetch" -> "summarise"
      [] stage = "Summarize" -> "generate"
      [] stage = "Generate" -> "display"

\* Mutant of pc_after_exception: the exception is caught and the script goes on.
pc_after_exception_swallowed(stage) == pc_after(stage)

\* Where main() is after a stage raised: nothing in main() (lines 189-203)
\* or in the stages catches an exception, so the script ends there.
pc_after_exception(stage) == "failed"

Raise(stage, e) ==
    /\ pc' = pc_after_exception(stage)
    /\ err' = e

Return(stage) ==
    /\ pc' = pc_after(stage)
    /\ completed' = Append(completed, stage)
    /\ err' = err

(***************************************************************************)
(* main(), up to the test of the query (lines 172-189).  Streamlit runs    *)
(* the script from the top with the current value of the text input; all   *)
(* the locals of the previous run are gone.                                *)
(***************************************************************************)
main(q) ==
    /\ pc \in {"idle", "done", "failed"}
    /\ runs < MaxRuns
    /\ runs' = runs + 1
    /\ query' = q
    /\ StartRun
    /\ pc' = IF query_is_truthy(q) THEN "search" ELSE "idle"
    /\ UNCHANGED keys

(***************************************************************************)
(* search_for_articles (lines 23-40).  The request is built and sent with  *)
(* whatever SERPAPI_API_KEY holds; requests leaves a header whose value is *)
(* None out of the request.  response.json() raises when the body is not   *)
(* JSON; an error body that is JSON is returned like any other.            *)
(***************************************************************************)
SearchBodies == IF SERPAPI_API_KEY = "None" THEN {"unauthorized"} ELSE {"organic", "unauthorized"}

search_for_articles ==
    /\ pc = "search"
    /\ stages' = Append(stages, "Search")
    /\ searchCalls' = Append(searchCalls, [q |-> query, api_key |-> SERPAPI_API_KEY])
    /\ \/ /\ Raise("Search", "NetworkError")
          /\ UNCHANGED <<completed, search_results>>
       \/ /\ Raise("Search", "ParseError")
          /\ UNCHANGED <<completed, search_results>>
       \/ \E body \in SearchBodies :
             /\ search_results' = body
             /\ Return("Search")
    /\ UNCHANGED <<keys, runs, query, urls, data, text, idx, inflight, summ_local,
                   summaries, post, selectCalls, selectReplies, fetchCalls, summCalls,
                   summReplies, genCalls, genReplies>>

(***************************************************************************)
(* find_the_best_article_urls (lines 43-68).  ChatOpenAI(...) (line 57)    *)
(* raises when the environment has no OPENAI_API_KEY; predict (line 63)    *)
(* sends one prompt; json.loads (line 65) raises on a text that is not     *)
(* JSON and whatever it returns is returned.                               *)
(***************************************************************************)
find_the_best_article_urls ==
    /\ pc = "select"
    /\ stages' = Append(stages, "Select")
    /\ \/ /\ OPENAI_API_KEY = "None"
          /\ Raise("Select", "ConfigurationError")
          /\ UNCHANGED <<completed, urls, selectCalls, selectReplies>>
       \/ /\ OPENAI_API_KEY # "None"
          /\ selectCalls' = Append(selectCalls,
                 [response_str |-> json_dumps(search_results), query |-> query])
          /\ \/ /\ Raise("Select", "ModelInvocationError")
                /\ UNCHANGED <<completed, urls, selectReplies>>
             \/ \E generated_urls \in SelectorOutputs :
                   /\ selectReplies' = Append(selectReplies, generated_urls)
                   /\ IF json_loads(generated_urls).ok
                      THEN /\ urls' = json_loads(generated_urls).val
                           /\ Return("Select")
                      ELSE /\ Raise("Select", "ParseError")
                           /\ UNCHANGED <<completed, urls>>
    /\ UNCHANGED <<keys, runs, query, search_results, data, text, idx, inflight,
                   summ_local, summaries, post, searchCalls, fetchCalls, summCalls,
                   summReplies, genCalls, genReplies>>

(***************************************************************************)
(* get_content_from_urls (lines 71-81).  UnstructuredURLLoader.load()      *)
(* walks over urls; a location that cannot be fetched or parsed is logged  *)
(* and skipped, so the result holds one Document per location that worked, *)
(* in the order of urls.  Walking over an int raises; a str or a dict      *)
(* gives no location that can be fetched.                                  *)
(***************************************************************************)
Locations(v) ==
    IF v.kind = "list"
    THEN [k \in 1..Len(v.items) |-> v.items[k]]
    ELSE << >>

\* The pages of the locations that worked: each location either yields a
\* page or is skipped; an item that is not a string is always skipped.
RECURSIVE Loaded(_)
Loaded(locs) ==
    IF locs = << >> THEN { << >> }
    ELSE LET rest == Loaded(Tail(locs))
             here == IF Head(locs).kind = "str"
                     THEN { <<[page_content |-> c, metadata |-> Head(locs).s]>> : c \in Contents }
                          \cup { << >> }
                     ELSE { << >> }
         IN { h \o r : h \in here, r \in rest }

get_content_from_urls ==
    /\ pc = "fetch"
    /\ stages' = Append(stages, "Fetch")
    /\ fetchCalls' = Append(fetchCalls, urls)
    /\ \/ /\ Raise("Fetch", "FetchError")
          /\ UNCHANGED <<completed, data>>
       \/ /\ urls.kind # "int"
          /\ \E docs \in Loaded(Locations(urls)) :
                /\ data' = docs
                /\ Return("Fetch")
    /\ UNCHANGED <<keys, runs, query, search_results, urls, text, idx, inflight,
                   summ_local, summaries, post, searchCalls, selectCalls, selectReplies,
                   summCalls, summReplies, genCalls, genReplies>>

(***************************************************************************)
(* summarise_content (lines 84-121), in the steps of its execution:        *)
(* the split and the set-up (91-113), one model call of the for loop       *)
(* (115-118) sent, the call returned or raised, and the return (120-121).  *)
(***************************************************************************)
summarise_content_split ==
    /\ pc = "summarise"
    /\ stages' = Append(stages, "Summarize")
    /\ text' = split_documents(data)
    /\ IF OPENAI_API_KEY = "None"
       THEN Raise("Summarize", "ConfigurationError")
       ELSE pc' = "summarise_loop" /\ err' = err
    /\ idx' = 1
    /\ summ_local' = << >>
    /\ UNCHANGED <<keys, runs, query, completed, search_results, urls, data, inflight,
                   summaries, post, calls>>

\* llm_summariser.predict(text=chunk, query=query) is entered for the next
\* item of enumerate(text); the script waits for it.
summarise_content_call ==
    /\ pc = "summarise_loop"
    /\ inflight = 0
    /\ idx <= Len(text)
    /\ summCalls' = Append(summCalls, SummaryPrompt(idx, text[idx], query))
    /\ inflight' = inflight + 1
    /\ UNCHANGED <<keys, runs, query, pc, err, stages, completed, search_results, urls,
                   data, text, idx, summ_local, summaries, post, searchCalls, selectCalls,
                   selectReplies, fetchCalls, summReplies, genCalls, genReplies>>

\* predict returns: summaries.append(summary) and the loop moves on.
summarise_content_returned ==
    /\ pc = "summarise_loop"
    /\ inflight > 0
    /\ \E summary \in SummaryOutputs :
          /\ summReplies' = Append(summReplies, summary)
          /\ summ_local' = Append(summ_local, summary)
    /\ inflight' = inflight - 1
    /\ idx' = idx + 1
    /\ UNCHANGED <<keys, runs, query, pc, err, stages, completed, search_results, urls,
                   data, text, summaries, post, searchCalls, selectCalls, selectReplies,
                   fetchCalls, summCalls, genCalls, genReplies>>

\* Mutant of summarise_content_raised: the failure is caught and the
\* summaries collected so far are returned.
summarise_content_raised_partial ==
    /\ pc = "summarise_loop"
    /\ inflight > 0
    /\ inflight' = inflight - 1
    /\ summaries' = summ_local
    /\ pc' = "generate"
    /\ completed' = Append(completed, "Summarize")
    /\ UNCHANGED <<keys, runs, query, err, stages, search_results, urls, data,
                   text, idx, summ_local, post, calls>>

\* Mutant of summarise_content_raised: the failure is caught and the call
\* for the same chunk is sent again.
summarise_content_raised_retry ==
    /\ pc = "summarise_loop"
    /\ inflight > 0
    /\ inflight' = inflight - 1
    /\ UNCHANGED <<keys, runs, query, pc, err, stages, completed, search_results, urls,
                   data, text, idx, summ_local, summaries, post, calls>>

\* predict raises: the exception leaves summarise_content and main(); the
\* local list is dropped with the frame.
summarise_content_raised ==
    /\ pc = "summarise_loop"
    /\ inflight > 0
    /\ inflight' = inflight - 1
    /\ Raise("Summarize", "ModelInvocationError")
    /\ UNCHANGED <<keys, runs, query, stages, completed, search_results, urls, data,
                   text, idx, summ_local, summaries, post, calls>>

\* The loop is over: return summaries (line 121), assigned in main (line 199).
summarise_content_return ==
    /\ pc = "summarise_loop"
    /\ inflight = 0
    /\ idx > Len(text)
    /\ summaries' = summ_local
    /\ Return("Summarize")
    /\ UNCHANGED <<keys, runs, query, stages, search_results, urls, data, text, idx,
                   inflight, summ_local, post, calls>>

(***************************************************************************)
(* generate_reddit_post (lines 124-154): one prompt holding str(summaries) *)
(* and the query, one predict, and its result returned as it is.           *)
(***************************************************************************)
generate_reddit_post ==
    /\ pc = "generate"
    /\ stages' = Append(stages, "Generate")
    /\ IF OPENAI_API_KEY = "None"
       THEN /\ Raise("Generate", "ConfigurationError")
            /\ UNCHANGED <<completed, post, genCalls, genReplies>>
       ELSE /\ genCalls' = Append(genCalls, PostPrompt(summaries, query))
            /\ \/ /\ Raise("Generate", "ModelInvocationError")
                  /\ UNCHANGED <<completed, post, genReplies>>
               \/ \E reddit_post \in PostOutputs :
                     /\ genReplies' = Append(genReplies, reddit_post)
                     /\ post' = reddit_post
                     /\ Return("Generate")
    /\ UNCHANGED <<keys, runs, query, search_results, urls, data, text, idx, inflight,
                   summ_local, summaries, searchCalls, selectCalls, selectReplies,
                   fetchCalls, summCalls, summReplies>>

\* The five expanders (lines 205-214) show the results; the run is over.
display ==
    /\ pc = "display"
    /\ pc' = "done"
    /\ UNCHANGED <<keys, runs, query, err, stages, completed, results, calls>>

Next ==
    \/ \E q \in Queries : main(q)
    \/ search_for_articles
    \/ find_the_best_article_urls
    \/ get_content_from_urls
    \/ summarise_content_split
    \/ summarise_content_call
    \/ summarise_content_returned
    \/ summarise_content_raised
    \/ summarise_content_return
    \/ generate_reddit_post
    \/ display

Spec == Init /\ [][Next]_vars

(***************************************************************************)
(* Properties                                                              *)
(***************************************************************************)
IsPrefix(a, b) == Len(a) <= Len(b) /\ a = SubSeq(b, 1, Len(a))

Last(seq) == seq[Len(seq)]

NoCalls ==
    /\ searchCalls = << >>
    /\ selectCalls = << >>
    /\ fetchCalls = << >>
    /\ summCalls = << >>
    /\ genCalls = << >>

ErrorKinds == {"ConfigurationError", "NetworkError", "ParseError", "FetchError",
               "ModelInvocationError"}

\* The run is over or a new run has started: what a step may do once the
\* run has failed.
RunFrozen ==
    \/ runs' # runs
    \/ UNCHANGED <<stages, completed, results, calls, pc, err>>

\* C1: the stages are entered in the order Search, Select, Fetch, Summarize,
\* Generate, each only after the one before it has returned; a stage that
\* raises (the selector on a model output that is not JSON in particular)
\* leaves the run failed, and no later stage is entered in that run.
C1_StagesInOrder ==
    /\ [](/\ IsPrefix(stages, StageOrder)
          /\ IsPrefix(completed, stages)
          /\ Len(stages) <= Len(completed) + 1
          /\ (stages # << >> => query # "")
          /\ (pc = "failed" => /\ err \in ErrorKinds
                               /\ Len(stages) = Len(completed) + 1)
          /\ (pc = "done" => completed = StageOrder /\ err = "None")
          /\ (selectReplies # << >> /\ ~json_loads(selectReplies[1]).ok
                 => /\ pc = "failed"
                    /\ err = "ParseError"
                    /\ stages = <<"Search", "Select">>
                    /\ fetchCalls = << >>
                    /\ summCalls = << >>
                    /\ genCalls = << >>))
    /\ [][pc = "failed" => RunFrozen]_vars

C1_Witness ==
    /\ pc = "failed"
    /\ err = "ParseError"
    /\ stages = <<"Search", "Select">>
    /\ selectReplies = << <<"Sure!", "[", "\"u1\"", "]">> >>

\* C2: a run that reaches Done has a non-empty post, and every other run
\* that ends, ends with one of the enumerated errors.
C2_NeverEmptyPost ==
    /\ (pc = "done" => post > 0)
    /\ (pc = "failed" => err \in ErrorKinds)

\* C3: the selector returns a non-empty list of strings whenever it returns,
\* and raises in every other case.
C3_SelectorReturnsUrls ==
    "Select" \in {completed[k] : k \in 1..Len(completed)}
        => /\ urls.kind = "list"
           /\ Len(urls.items) > 0
           /\ \A k \in 1..Len(urls.items) : urls.items[k].kind = "str"

\* C4: a summariser that returned gives one summary per chunk, in chunk
\* order, summary i being the model's answer to the prompt whose text slot
\* holds the text of chunk i and nothing else.
C4_SummaryPerChunk ==
    /\ \A k \in 1..Len(summCalls) :
          summCalls[k] = [text |-> PlainText(text[k]), query |-> query]
    /\ ("Summarize" \in {completed[k] : k \in 1..Len(completed)}
           => /\ Len(summaries) = Len(text)
              /\ Len(summCalls) = Len(text)
              /\ summaries = summReplies)

\* C5: a page of L characters without a separator gives
\* ceil((L - 200) / (3000 - 200)) chunks, one chunk when L <= 3000; one
\* fetched page of 5000 characters gives 2 chunks and 2 summaries.
ExpectedChunks(L) ==
    IF L <= chunk_size THEN 1
    ELSE ((L - chunk_overlap) + (chunk_size - chunk_overlap) - 1)
             \div (chunk_size - chunk_overlap)

SingleUnbrokenPage == Len(data) = 1 /\ Len(data[1].page_content) = 1

C5_ChunkCount ==
    /\ (pc \in {"summarise_loop", "generate", "display", "done"} /\ SingleUnbrokenPage)
          => Len(text) = ExpectedChunks(LineLen(data[1].page_content[1]))
    /\ (pc \in {"generate", "display", "done"} /\ SingleUnbrokenPage
           /\ data[1].page_content = <<Line(0, 5000, 0)>>)
          => Len(summaries) = 2

\* C6: when the model call for a chunk raises, the summariser returns
\* nothing to main (not even the summaries of the chunks before it), sends
\* no call for a later chunk, and the post generator is not called.
\* A summariser call was sent, is no longer in flight and has no reply: it raised.
SummariserCallRaised == inflight = 0 /\ Len(summCalls) > Len(summReplies)

C6_NoPartialSummaries ==
    /\ [](SummariserCallRaised
             => /\ pc = "failed"
                /\ err = "ModelInvocationError"
                /\ Last(stages) = "Summarize"
                /\ summaries = << >>
                /\ completed = <<"Search", "Select", "Fetch">>
                /\ Len(summCalls) = idx
                /\ Len(summReplies) = idx - 1
                /\ genCalls = << >>
                /\ post = 0)
    /\ [][SummariserCallRaised => RunFrozen]_vars

C6_Witness ==
    /\ SummariserCallRaised
    /\ idx = 2
    /\ Len(text) = 3
    /\ summ_local = <<"s">>

\* C7: in one run the search request, the selector call, the fetch and the
\* post-generation call are each made at most once, the summariser calls
\* the model at most once per chunk, one call at a time in chunk order, and
\* nothing is called again after a failure.
C7_NoRepeatedCall ==
    /\ [](/\ Len(searchCalls) <= 1
          /\ Len(selectCalls) <= 1
          /\ Len(fetchCalls) <= 1
          /\ Len(genCalls) <= 1
          /\ inflight <= 1
          /\ Len(summCalls) <= Len(text)
          /\ Len(summCalls) <= Len(summReplies) + 1
          /\ (pc # "failed" => Len(summCalls) = Len(summReplies) + inflight)
          /\ \A k \in 1..Len(summCalls) : summCalls[k].text.index = k - 1)
    /\ [][pc = "failed" => (runs' # runs \/ UNCHANGED calls)]_vars

C7_Witness ==
    /\ pc = "failed"
    /\ err = "ModelInvocationError"
    /\ Len(summCalls) = 2
    /\ Len(summReplies) = 1
    /\ Len(text) = 4

\* C8: with either API key missing, the program stops with a configuration
\* error before any search request or model call is made.
C8_FailFastOnMissingKey ==
    (SERPAPI_API_KEY = "None" \/ OPENAI_API_KEY = "None")
        => /\ NoCalls
           /\ (pc = "failed" => err = "ConfigurationError")

\* C9: the post generator calls the model exactly once, with one prompt
\* that holds all the summaries in their order and the query, and returns
\* the model's text as it is, however long.
Embedded(toks) == [k \in 1..((Len(toks) - 1) \div 4) |-> toks[4 * k - 1]]

C9_PostVerbatim ==
    /\ Len(genCalls) <= 1
    /\ (stages # << >> /\ Last(stages) = "Generate"
           => /\ Len(genCalls) = 1
              /\ genCalls[1].query = query
              /\ Embedded(genCalls[1].summaries_str) = summaries)
    /\ (pc \in {"display", "done"}
           => /\ Len(genReplies) = 1
              /\ post = genReplies[1])

C9_Witness ==
    /\ pc = "done"
    /\ summaries = <<"s", "", "s">>
    /\ post = 50000

\* C10: while the query is empty no stage runs, nothing is requested from
\* any service and no result exists.
C10_EmptyQueryDoesNothing ==
    query = ""
        => /\ pc = "idle"
           /\ stages = << >>
           /\ completed = << >>
           /\ NoCalls
           /\ search_results = "None"
           /\ urls = NoValue
           /\ data = << >>
           /\ summaries = << >>
           /\ post = 0

C10_Witness ==
    /\ runs = 2
    /\ query = ""
    /\ pc = "idle"

====
